---- MODULE Spec2Model ----
(***************************************************************************)
(* A model of tuxliketimeout.cpp: the argument quoter ArgvQuote, the       *)
(* HandleGuard scope guard and the launcher wmain, which creates a child   *)
(* process, waits for it with a deadline, terminates it on expiry and      *)
(* relays its exit code.                                                   *)
(*                                                                         *)
(* Strings are sequences of one-character strings.  A DWORD is a pair      *)
(* <<hi, lo>> of 16-bit halves, so that the 32-bit width of the source is  *)
(* kept exactly (the value is hi * 65536 + lo).                            *)
(***************************************************************************)
EXTENDS Integers, Sequences, FiniteSets, TLC

(***************************************************************************)
(* Bounds of the model.                                                    *)
(***************************************************************************)
\* most arguments after TIMEOUT (PROGRAM and its ARGUMENTS) in QuoteSpec
MaxArgs == 2
\* longest argument, in characters, in QuoteSpec
MaxLen == 3
\* most characters in all the arguments of one command line in QuoteSpec
MaxTotal == 4
\* the small instants of the clock, in milliseconds: 0..MaxTime
MaxTime == 2

(***************************************************************************)
(* Characters.                                                             *)
(***************************************************************************)
SP == " "
TAB == "\t"
NL == "\n"
VT == "<VT>"
BS == "\\"
DQ == "\""

Digits == {"0", "1", "2", "3", "4", "5", "6", "7", "8", "9"}

DigitVal(c) ==
    CASE c = "0" -> 0 [] c = "1" -> 1 [] c = "2" -> 2 [] c = "3" -> 3
      [] c = "4" -> 4 [] c = "5" -> 5 [] c = "6" -> 6 [] c = "7" -> 7
      [] c = "8" -> 8 [] c = "9" -> 9

Rep(n, c) == [i \in 1..n |-> c]

(***************************************************************************)
(* DWORD: 32-bit unsigned, as two 16-bit halves.                           *)
(***************************************************************************)
Half == 256 * 256

D(hi, lo) == <<hi, lo>>

DwordLeq(a, b) == a[1] < b[1] \/ (a[1] = b[1] /\ a[2] <= b[2])

\* unsigned negation modulo 2^32, as strtoul applies a leading minus sign
DwordNeg(a) ==
    IF a[2] = 0 THEN D((Half - a[1]) % Half, 0)
    ELSE D(Half - 1 - a[1], Half - a[2])

ULONG_MAX == D(Half - 1, Half - 1)

(***************************************************************************)
(* std::stoul(std::wstring(argv[1])): skips leading white space, takes an  *)
(* optional sign and then decimal digits; what follows the digits is       *)
(* ignored.  No digits: std::invalid_argument.  A magnitude above         *)
(* ULONG_MAX (32 bits on Windows): std::out_of_range.  A minus sign        *)
(* negates the magnitude modulo 2^32.                                      *)
(***************************************************************************)
IsSpace == {SP, TAB, NL, VT}

RECURSIVE SkipSpace(_, _)
SkipSpace(s, i) ==
    IF i <= Len(s) /\ s[i] \in IsSpace THEN SkipSpace(s, i + 1) ELSE i

\* the digits from position i on: hi and lo are the halves of the magnitude
\* read so far, n the number of digits read, range whether it overflowed
RECURSIVE ScanDigits(_, _, _, _, _, _)
ScanDigits(s, i, hi, lo, n, range) ==
    IF i <= Len(s) /\ s[i] \in Digits
    THEN LET low == lo * 10 + DigitVal(s[i])
             high == hi * 10 + (low \div Half)
         IN  IF range \/ high >= Half
             THEN ScanDigits(s, i + 1, Half - 1, Half - 1, n + 1, TRUE)
             ELSE ScanDigits(s, i + 1, high, low % Half, n + 1, FALSE)
    ELSE [v |-> D(hi, lo), n |-> n, range |-> range]

stoul(s) ==
    LET i == SkipSpace(s, 1)
        signed == i <= Len(s) /\ s[i] \in {"+", "-"}
        minus == signed /\ s[i] = "-"
        r == ScanDigits(s, IF signed THEN i + 1 ELSE i, 0, 0, 0, FALSE)
    IN  IF r.n = 0 THEN [ok |-> FALSE, what |-> "invalid_argument", value |-> D(0, 0)]
        ELSE IF r.range THEN [ok |-> FALSE, what |-> "out_of_range", value |-> D(0, 0)]
        ELSE [ok |-> TRUE, what |-> "", value |-> IF minus THEN DwordNeg(r.v) ELSE r.v]

(***************************************************************************)
(* ArgvQuote.                                                              *)
(***************************************************************************)
NeedsNoQuotingSpaceOrQuote(Argument) ==
    \A i \in 1..Len(Argument) : Argument[i] \notin {SP, DQ}

\* Argument.find_first_of(L" \t\n\v\"") == Argument.npos
NeedsNoQuoting(Argument) ==
    \A i \in 1..Len(Argument) : Argument[i] \notin {SP, TAB, NL, VT, DQ}

UnescapedBackslashesAtEnd(NumberBackslashes) == NumberBackslashes

\* the backslashes emitted for a run of n backslashes that ends the argument
BackslashesAtEnd(NumberBackslashes) == NumberBackslashes * 2

NaiveBackslashesBeforeQuote(NumberBackslashes) == NumberBackslashes + 1

DoubledBackslashesBeforeQuote(NumberBackslashes) == NumberBackslashes * 2

\* the backslashes emitted for a run of n backslashes followed by a quote
BackslashesBeforeQuote(NumberBackslashes) == NumberBackslashes * 2 + 1

\* the for loop of ArgvQuote: It is the position of the iterator,
\* NumberBackslashes the length of the run read so far
RECURSIVE QuoteScan(_, _, _, _)
QuoteScan(Argument, It, NumberBackslashes, CommandLine) ==
    IF It > Len(Argument)
    THEN CommandLine \o Rep(BackslashesAtEnd(NumberBackslashes), BS)
    ELSE IF Argument[It] = BS
    THEN QuoteScan(Argument, It + 1, NumberBackslashes + 1, CommandLine)
    ELSE IF Argument[It] = DQ
    THEN QuoteScan(Argument, It + 1, 0,
             CommandLine \o Rep(BackslashesBeforeQuote(NumberBackslashes), BS) \o <<DQ>>)
    ELSE QuoteScan(Argument, It + 1, 0,
             CommandLine \o Rep(NumberBackslashes, BS) \o <<Argument[It]>>)

\* the command line after ArgvQuote(Argument, CommandLine, Force)
ArgvQuote(Argument, CommandLine, Force) ==
    IF Force = FALSE /\ Argument # <<>> /\ NeedsNoQuoting(Argument)
    THEN CommandLine \o Argument
    ELSE QuoteScan(Argument, 1, 0, CommandLine \o <<DQ>>) \o <<DQ>>

(***************************************************************************)
(* The argv tokenizer the command line is built for (CommandLineToArgvW,   *)
(* named in the comment of ArgvQuote): 2n backslashes and a quote give n   *)
(* backslashes and a quote that opens or closes a quoted part; 2n+1        *)
(* backslashes and a quote give n backslashes and a literal quote; other   *)
(* backslashes are literal; space or tab outside quotes ends an argument.  *)
(***************************************************************************)
RECURSIVE CountBackslashes(_, _)
CountBackslashes(s, i) ==
    IF i <= Len(s) /\ s[i] = BS THEN 1 + CountBackslashes(s, i + 1) ELSE 0

\* st = [out |-> arguments so far, cur |-> the argument being read,
\*       open |-> an argument is being read, quoted |-> inside quotes]
RECURSIVE Tokenize(_, _, _)
Tokenize(s, i, st) ==
    IF i > Len(s)
    THEN IF st.open THEN Append(st.out, st.cur) ELSE st.out
    ELSE IF s[i] = BS
    THEN LET n == CountBackslashes(s, i)
             j == i + n
         IN  IF j <= Len(s) /\ s[j] = DQ
             THEN IF n % 2 = 0
                  THEN Tokenize(s, j + 1,
                           [st EXCEPT !.cur = @ \o Rep(n \div 2, BS), !.open = TRUE,
                                      !.quoted = ~@])
                  ELSE Tokenize(s, j + 1,
                           [st EXCEPT !.cur = @ \o Rep(n \div 2, BS) \o <<DQ>>, !.open = TRUE])
             ELSE Tokenize(s, j, [st EXCEPT !.cur = @ \o Rep(n, BS), !.open = TRUE])
    ELSE IF s[i] = DQ
    THEN Tokenize(s, i + 1, [st EXCEPT !.open = TRUE, !.quoted = ~@])
    ELSE IF s[i] \in {SP, TAB} /\ ~st.quoted
    THEN IF st.open
         THEN Tokenize(s, i + 1, [st EXCEPT !.out = Append(@, st.cur), !.cur = <<>>, !.open = FALSE])
         ELSE Tokenize(s, i + 1, st)
    ELSE Tokenize(s, i + 1, [st EXCEPT !.cur = Append(@, s[i]), !.open = TRUE])

CommandLineToArgv(s) ==
    Tokenize(s, 1, [out |-> <<>>, cur |-> <<>>, open |-> FALSE, quoted |-> FALSE])

(***************************************************************************)
(* Program constants.                                                      *)
(***************************************************************************)
EXIT_TIMEDOUT == 124
EXIT_CANCELED == 125
EXIT_CANNOT_INVOKE == 126
EXIT_ENOENT == 127

ERROR_FILE_NOT_FOUND == 2

\* the other errors of CreateProcessW the model draws from
\* (path not found, access denied, bad exe format)
OtherCreateErrors == {3, 5, 193}

\* the results of WaitForSingleObject, as DWORDs
WAIT_OBJECT_0 == D(0, 0)
WAIT_ABANDONED == D(0, 128)
WAIT_TIMEOUT == D(0, 258)
WAIT_FAILED == D(Half - 1, Half - 1)

\* WaitForSingleObject takes this budget to mean: no deadline
INFINITE == D(Half - 1, Half - 1)

\* a Win32 BOOL
BOOL(b) == IF b THEN D(0, 1) ELSE D(0, 0)

\* the operator ! of C++ applied to a DWORD
LogicalNot(dw) == dw = D(0, 0)

(***************************************************************************)
(* The state.                                                              *)
(***************************************************************************)
VARIABLES
    argv,          \* argv[k + 1] is the source's argv[k]
    pc,            \* the launcher's position in wmain
    time_out,      \* DWORD time_out
    argi,          \* the loop variable of the quoting loop
    command_line,  \* std::wstring command_line
    child,         \* "none", "running", "exited", "terminating", "terminated"
    child_exits,   \* whether the child program exits on its own
    child_code,    \* the exit code of the child process, once it has ended
    elapsed,       \* milliseconds since the wait on the process was issued
    handles,       \* pi.hProcess, pi.hThread: "null", "open" or "closed"
    guards,        \* the live HandleGuard objects, in construction order
    ret,           \* the int that wmain returns
    wcerr,         \* the diagnostics written to std::wcerr
    calls,         \* the Win32 calls made so far, with their results
    Force          \* the Force argument of a direct call of ArgvQuote

vars == <<argv, pc, time_out, argi, command_line, child, child_exits, child_code,
          elapsed, handles, guards, ret, wcerr, calls, Force>>

argc == Len(argv)

Argv(k) == argv[k + 1]

Call(op, h, r) == [op |-> op, h |-> h, r |-> r]

(***************************************************************************)
(* The inputs.                                                             *)
(***************************************************************************)
ProgramName == <<"t">>

\* the TIMEOUT arguments of the launcher's specification
TimeoutArguments ==
    { <<"0">>, <<"1">>, <<"2">>,
      <<"4", "2", "9", "4", "9", "6", "7", "2", "9", "4">>,
      <<"4", "2", "9", "4", "9", "6", "7", "2", "9", "5">>,
      <<"4", "2", "9", "4", "9", "6", "7", "2", "9", "6">>,
      <<"-", "1">>, <<"1", "x">>, <<"x">>, <<>> }

\* the PROGRAM [ARGUMENTS...] of the launcher's specification
CommandArguments ==
    { <<>>, << <<"a">> >>, << <<"a">>, <<"b", SP, "c">> >> }

LauncherArgvs ==
    { <<ProgramName>> } \cup
    { <<ProgramName, t>> \o c : t \in TimeoutArguments, c \in CommandArguments }

\* the exit codes a child ends with on its own
ExitCodes ==
    { D(0, 0), D(0, 42), D(0, 124), D(0, 125), D(0, 126), D(0, 127),
      D(Half - 1, Half - 1) }

\* the instants the clock of the model shows
TimePoints ==
    { D(0, t) : t \in 0..MaxTime } \cup { D(Half - 1, Half - 2), D(Half - 1, Half - 1) }

\* the characters of the arguments of QuoteSpec
Alphabet == {"a", SP, BS, DQ}

RECURSIVE Sum(_, _)
Sum(f, k) == IF k = 0 THEN 0 ELSE f[k] + Sum(f, k - 1)

\* the argument sequence whose arguments have the lengths lens and whose
\* characters, one argument after the other, are flat
Split(flat, lens) ==
    [i \in 1..Len(lens) |->
        SubSeq(flat, Sum(lens, i - 1) + 1, Sum(lens, i))]

\* every sequence of 1..MaxArgs arguments over Alphabet, each of at most MaxLen
\* characters, of at most MaxTotal characters together
QuoteArguments ==
    UNION { UNION { { Split(flat, lens) : flat \in [1..Sum(lens, k) -> Alphabet] } :
                    lens \in { l \in [1..k -> 0..MaxLen] : Sum(l, k) <= MaxTotal } } :
            k \in 1..MaxArgs }

QuoteArgvs == { <<ProgramName, <<"1">> >> \o a : a \in QuoteArguments }

(***************************************************************************)
(* The state after construction: wmain is entered with argc and argv.      *)
(***************************************************************************)
InitWith(inputs) ==
    /\ argv \in inputs
    /\ pc = "start"
    /\ time_out = D(0, 0)
    /\ argi = 2
    /\ command_line = <<>>
    /\ child = "none"
    /\ child_exits = FALSE
    /\ child_code = D(0, 0)
    /\ elapsed = D(0, 0)
    /\ handles = [h \in {"hProcess", "hThread"} |-> "null"]
    /\ guards = <<>>
    /\ ret = 0
    /\ wcerr = <<>>
    /\ calls = <<>>
    /\ Force = FALSE

Init == InitWith(LauncherArgvs)

QuoteInit == InitWith(QuoteArgvs)

(***************************************************************************)
(* return v: wmain's result is v; the destructors of the HandleGuard       *)
(* objects in scope run next.                                              *)
(***************************************************************************)
Return(v, diagnostic) ==
    /\ ret' = v
    /\ wcerr' = wcerr \o diagnostic
    /\ pc' = IF guards = <<>> THEN "done" ELSE "unwind"

(***************************************************************************)
(* The check of argc and the parsing of TIMEOUT.                           *)
(***************************************************************************)
ParseArguments ==
    /\ pc = "start"
    /\ IF argc < 3
       THEN /\ Return(EXIT_CANCELED, <<"Usage">>)
            /\ UNCHANGED time_out
       ELSE LET r == stoul(Argv(1))
            IN  IF r.ok
                THEN /\ time_out' = r.value
                     /\ pc' = "quote"
                     /\ UNCHANGED <<ret, wcerr>>
                ELSE /\ Return(EXIT_CANCELED, <<"The TIMEOUT must be a number in 0..4294967295.">>)
                     /\ UNCHANGED time_out
    /\ UNCHANGED <<Force, argv, argi, command_line, child, child_exits, child_code, elapsed,
                   handles, guards, calls>>

(***************************************************************************)
(* One iteration of the loop that builds command_line.                     *)
(***************************************************************************)
\* if (argi < argc) command_line += L" ", inside for (...; argi < argc; ...)
Separator(i) == IF i < argc THEN <<SP>> ELSE <<>>

QuoteArgument ==
    /\ pc = "quote"
    /\ argi < argc
    /\ command_line' = ArgvQuote(Argv(argi), command_line, FALSE) \o Separator(argi)
    /\ argi' = argi + 1
    /\ pc' = IF argi + 1 < argc THEN "quote" ELSE "create"
    /\ UNCHANGED <<Force, argv, time_out, child, child_exits, child_code, elapsed, handles,
                   guards, ret, wcerr, calls>>

(***************************************************************************)
(* CreateProcessW and the switch on GetLastError().                        *)
(***************************************************************************)
AlwaysCannotInvoke(error) == EXIT_CANNOT_INVOKE

SwappedCreateFailureStatus(error) ==
    IF error = ERROR_FILE_NOT_FOUND THEN EXIT_CANNOT_INVOKE ELSE EXIT_ENOENT

CreateFailureStatus(error) ==
    IF error = ERROR_FILE_NOT_FOUND THEN EXIT_ENOENT ELSE EXIT_CANNOT_INVOKE

CreateFailureDiagnostic(error) ==
    IF error = ERROR_FILE_NOT_FOUND THEN <<"Command not found.">>
    ELSE <<"CreateProcess failed.">>

CreateProcess ==
    /\ pc = "create"
    /\ \/ /\ calls' = Append(calls, Call("CreateProcessW", "none", BOOL(TRUE)))
          /\ handles' = [h \in {"hProcess", "hThread"} |-> "open"]
          /\ child' = "running"
          /\ child_exits' \in BOOLEAN
          /\ pc' = "guard"
          /\ UNCHANGED <<ret, wcerr>>
       \/ \E error \in {ERROR_FILE_NOT_FOUND} \cup OtherCreateErrors :
             /\ calls' = calls \o << Call("CreateProcessW", "none", BOOL(FALSE)),
                                   Call("GetLastError", "none", D(0, error)) >>
             /\ Return(CreateFailureStatus(error), CreateFailureDiagnostic(error))
             /\ UNCHANGED <<handles, child, child_exits>>
    /\ UNCHANGED <<Force, argv, time_out, argi, command_line, child_code, elapsed, guards>>

(***************************************************************************)
(* HandleGuard hProcessGuard(pi.hProcess); HandleGuard hThreadGuard(...).  *)
(***************************************************************************)
OnlyProcessGuarded == <<"hProcess">>

GuardedHandles == <<"hProcess", "hThread">>

ConstructGuardsAsTemporaries ==
    /\ pc = "guard"
    /\ calls' = calls \o << Call("CloseHandle", "hProcess", BOOL(TRUE)),
                          Call("CloseHandle", "hThread", BOOL(TRUE)) >>
    /\ handles' = [h \in {"hProcess", "hThread"} |-> "closed"]
    /\ pc' = "wait"
    /\ UNCHANGED <<Force, argv, time_out, argi, command_line, child, child_exits,
                   child_code, elapsed, guards, ret, wcerr>>

ConstructGuards ==
    /\ pc = "guard"
    /\ guards' = GuardedHandles
    /\ pc' = "wait"
    /\ UNCHANGED <<Force, argv, time_out, argi, command_line, child, child_exits, child_code,
                   elapsed, handles, ret, wcerr, calls>>

(***************************************************************************)
(* switch (WaitForSingleObject(pi.hProcess, time_out)).                    *)
(***************************************************************************)
SwitchOnWaitFallThrough(result) ==
    /\ calls' = Append(calls, Call("WaitForSingleObject", "hProcess", result))
    /\ IF result = WAIT_FAILED
       THEN /\ pc' = "terminate"
            /\ wcerr' = Append(wcerr, "WaitForSingleObject failed.")
            /\ UNCHANGED ret
       ELSE IF result = WAIT_TIMEOUT
       THEN pc' = "terminate" /\ UNCHANGED <<ret, wcerr>>
       ELSE IF result = WAIT_OBJECT_0
       THEN pc' = "getexit" /\ UNCHANGED <<ret, wcerr>>
       ELSE Return(EXIT_CANCELED, <<"WaitForSingleObject returned an unexpected value.">>)

SwitchOnWaitTimeoutReadsCode(result) ==
    /\ calls' = Append(calls, Call("WaitForSingleObject", "hProcess", result))
    /\ IF result = WAIT_FAILED
       THEN Return(EXIT_CANCELED, <<"WaitForSingleObject failed.">>)
       ELSE IF result \in {WAIT_TIMEOUT, WAIT_OBJECT_0}
       THEN pc' = "getexit" /\ UNCHANGED <<ret, wcerr>>
       ELSE Return(EXIT_CANCELED, <<"WaitForSingleObject returned an unexpected value.">>)

SwitchOnWait(result) ==
    /\ calls' = Append(calls, Call("WaitForSingleObject", "hProcess", result))
    /\ IF result = WAIT_FAILED
       THEN Return(EXIT_CANCELED, <<"WaitForSingleObject failed.">>)
       ELSE IF result = WAIT_TIMEOUT
       THEN pc' = "terminate" /\ UNCHANGED <<ret, wcerr>>
       ELSE IF result = WAIT_OBJECT_0
       THEN pc' = "getexit" /\ UNCHANGED <<ret, wcerr>>
       ELSE Return(EXIT_CANCELED, <<"WaitForSingleObject returned an unexpected value.">>)

\* the call is made: it fails or returns an unexpected value at once, or the
\* launcher blocks
IssueWait ==
    /\ pc = "wait"
    /\ \/ /\ pc' = "waiting"
          /\ UNCHANGED <<ret, wcerr, calls>>
       \/ \E result \in {WAIT_FAILED, WAIT_ABANDONED} : SwitchOnWait(result)
    /\ elapsed' = D(0, 0)
    /\ UNCHANGED <<Force, argv, time_out, argi, command_line, child, child_exits, child_code,
                   handles, guards>>

\* the budget of dwMilliseconds has run out; INFINITE never runs out
Expired(dwMilliseconds, waited) ==
    dwMilliseconds # INFINITE /\ DwordLeq(dwMilliseconds, waited)

\* the blocked call returns: the process handle is signaled, or the budget
\* has run out
WaitReturns ==
    /\ pc = "waiting"
    /\ \/ child = "exited" /\ SwitchOnWait(WAIT_OBJECT_0)
       \/ child = "running" /\ Expired(time_out, elapsed) /\ SwitchOnWait(WAIT_TIMEOUT)
    /\ UNCHANGED <<Force, argv, time_out, argi, command_line, child, child_exits, child_code,
                   elapsed, handles, guards>>

(***************************************************************************)
(* case WAIT_TIMEOUT: TerminateProcess(pi.hProcess, 0).  It fails on a     *)
(* process that has already ended, and may fail on a running one.          *)
(***************************************************************************)
TerminateProcessWithoutEffect ==
    /\ pc = "terminate"
    /\ calls' = Append(calls, Call("TerminateProcess", "hProcess", BOOL(TRUE)))
    /\ pc' = "probe"
    /\ UNCHANGED <<Force, argv, time_out, argi, command_line, child, child_exits,
                   child_code, elapsed, handles, guards, ret, wcerr>>

TerminateProcess ==
    /\ pc = "terminate"
    /\ \/ /\ child = "running"
          /\ calls' = Append(calls, Call("TerminateProcess", "hProcess", BOOL(TRUE)))
          /\ child' = "terminating"
          /\ pc' = "probe"
          /\ UNCHANGED <<ret, wcerr>>
       \/ /\ calls' = Append(calls, Call("TerminateProcess", "hProcess", BOOL(FALSE)))
          /\ Return(EXIT_CANCELED, <<"TerminateProcess failed.">>)
          /\ UNCHANGED child
    /\ UNCHANGED <<Force, argv, time_out, argi, command_line, child_exits, child_code, elapsed,
                   handles, guards>>

(***************************************************************************)
(* if (!WaitForSingleObject(pi.hThread, 0)) ... return EXIT_CANCELED;      *)
(* return EXIT_TIMEDOUT.                                                   *)
(***************************************************************************)
\* what the zero-duration wait on the thread handle can return
ProbeResults ==
    {WAIT_FAILED} \cup
    (IF child = "terminated" THEN {WAIT_OBJECT_0} ELSE {WAIT_TIMEOUT})

ProbeThread ==
    /\ pc = "probe"
    /\ \E result \in ProbeResults :
          /\ calls' = Append(calls, Call("WaitForSingleObject", "hThread", result))
          /\ IF LogicalNot(result)
             THEN Return(EXIT_CANCELED, <<"WaitForSingleObject failed.">>)
             ELSE Return(EXIT_TIMEDOUT, <<>>)
    /\ UNCHANGED <<Force, argv, time_out, argi, command_line, child, child_exits, child_code,
                   elapsed, handles, guards>>

(***************************************************************************)
(* case WAIT_OBJECT_0: GetExitCodeProcess and return error_code.           *)
(***************************************************************************)
TruncatedToByte(dw) == dw[2] % 256

\* the conversion of DWORD error_code to the int that wmain returns
DwordToInt(dw) ==
    IF dw[1] >= Half \div 2 THEN (dw[1] - Half) * Half + dw[2] ELSE dw[1] * Half + dw[2]

GetExitCode ==
    /\ pc = "getexit"
    /\ \/ /\ calls' = Append(calls, Call("GetExitCodeProcess", "hProcess", BOOL(TRUE)))
          /\ Return(DwordToInt(child_code), <<>>)
       \/ /\ calls' = Append(calls, Call("GetExitCodeProcess", "hProcess", BOOL(FALSE)))
          /\ Return(EXIT_CANCELED, <<"GetExitCodeProcess failed.">>)
    /\ UNCHANGED <<Force, argv, time_out, argi, command_line, child, child_exits, child_code,
                   elapsed, handles, guards>>

(***************************************************************************)
(* ~HandleGuard: the guards are destroyed in reverse order of              *)
(* construction, each closing its handle.                                  *)
(***************************************************************************)
DestroyGuard ==
    /\ pc = "unwind"
    /\ guards # <<>>
    /\ LET m_handle == guards[Len(guards)]
       IN  /\ calls' = Append(calls, Call("CloseHandle", m_handle, BOOL(TRUE)))
           /\ handles' = [handles EXCEPT ![m_handle] = "closed"]
    /\ guards' = SubSeq(guards, 1, Len(guards) - 1)
    /\ pc' = IF Len(guards) = 1 THEN "done" ELSE "unwind"
    /\ UNCHANGED <<Force, argv, time_out, argi, command_line, child, child_exits, child_code,
                   elapsed, ret, wcerr>>

(***************************************************************************)
(* The child process and the clock, which run beside the launcher.         *)
(***************************************************************************)
ChildExits ==
    /\ child = "running"
    /\ child_exits
    /\ \E code \in ExitCodes : child_code' = code
    /\ child' = "exited"
    /\ UNCHANGED <<Force, argv, pc, time_out, argi, command_line, child_exits, elapsed, handles,
                   guards, ret, wcerr, calls>>

\* the termination that TerminateProcess started completes, with exit code 0
TerminationCompletes ==
    /\ child = "terminating"
    /\ child' = "terminated"
    /\ child_code' = D(0, 0)
    /\ UNCHANGED <<Force, argv, pc, time_out, argi, command_line, child_exits, elapsed, handles,
                   guards, ret, wcerr, calls>>

Tick ==
    /\ pc = "waiting"
    /\ \E t \in TimePoints :
          /\ t # elapsed
          /\ DwordLeq(elapsed, t)
          /\ elapsed' = t
    /\ UNCHANGED <<Force, argv, pc, time_out, argi, command_line, child, child_exits, child_code,
                   handles, guards, ret, wcerr, calls>>

(***************************************************************************)
(* The specifications.                                                     *)
(***************************************************************************)
Next ==
    \/ ParseArguments
    \/ QuoteArgument
    \/ CreateProcess
    \/ ConstructGuards
    \/ IssueWait
    \/ WaitReturns
    \/ TerminateProcess
    \/ ProbeThread
    \/ GetExitCode
    \/ DestroyGuard
    \/ ChildExits
    \/ TerminationCompletes
    \/ Tick

Spec == Init /\ [][Next]_vars

\* the launcher's thread is scheduled, the calls it makes return, the clock
\* advances and a termination that was started completes
FairSpec == Spec /\ WF_vars(Next)

\* the quoting loop alone, over every bounded argument sequence
QuoteNext ==
    \/ ParseArguments
    \/ QuoteArgument

QuoteSpec == QuoteInit /\ [][QuoteNext]_vars

(***************************************************************************)
(* What the claims speak of.                                               *)
(***************************************************************************)
Returned(op, h, r) ==
    \E i \in DOMAIN calls : calls[i] = Call(op, h, r)

Count(op, h) ==
    Cardinality({ i \in DOMAIN calls : calls[i].op = op /\ calls[i].h = h })

Created == Returned("CreateProcessW", "none", BOOL(TRUE))
CreateFailed == Returned("CreateProcessW", "none", BOOL(FALSE))
NotFound == Returned("GetLastError", "none", D(0, ERROR_FILE_NOT_FOUND))
WaitFailed == Returned("WaitForSingleObject", "hProcess", WAIT_FAILED)
WaitTimedOut == Returned("WaitForSingleObject", "hProcess", WAIT_TIMEOUT)
WaitSignaled == Returned("WaitForSingleObject", "hProcess", WAIT_OBJECT_0)
UnexpectedWaitResult == Returned("WaitForSingleObject", "hProcess", WAIT_ABANDONED)
TerminateSucceeded == Returned("TerminateProcess", "hProcess", BOOL(TRUE))
TerminateFailed == Returned("TerminateProcess", "hProcess", BOOL(FALSE))
ProbeFailed == Returned("WaitForSingleObject", "hThread", WAIT_FAILED)
ProbeSignaled == Returned("WaitForSingleObject", "hThread", WAIT_OBJECT_0)
ExitCodeRetrieved == Returned("GetExitCodeProcess", "hProcess", BOOL(TRUE))
ExitCodeUnavailable == Returned("GetExitCodeProcess", "hProcess", BOOL(FALSE))

\* the exit status of the launcher's process: the int wmain returned, as the
\* unsigned 32-bit value the parent reads
ExitStatus == D((ret \div Half) % Half, ret % Half)

\* the argument is a decimal number in 0..4294967295
IsNumberInRange(s) ==
    /\ s # <<>>
    /\ \A i \in 1..Len(s) : s[i] \in Digits
    /\ ~ScanDigits(s, 1, 0, 0, 0, FALSE).range

(***************************************************************************)
(* The claims.                                                             *)
(***************************************************************************)

\* C1: when the child was created, the wait on the process handle reported
\* timeout and the terminate request succeeded, the launcher returns 124
\* unless the zero-duration probe of the thread handle reports an error; a
\* probe that finds the thread signaled still yields 124.
C1_TimeoutYields124 ==
    (pc = "done" /\ Created /\ WaitTimedOut /\ TerminateSucceeded /\ ~ProbeFailed)
        => ret = EXIT_TIMEDOUT

\* C2: when the wait reported the process handle signaled and the exit code
\* was retrieved, the launcher's exit status is the child's exit code, for
\* every exit code.
C2_PassThrough ==
    (pc = "done" /\ WaitSignaled /\ ExitCodeRetrieved) => ExitStatus = child_code

C2_Witness ==
    /\ pc = "done" /\ WaitSignaled /\ ExitCodeRetrieved
    /\ child_code = D(0, EXIT_TIMEDOUT)
    /\ ret = EXIT_TIMEDOUT

\* C3: a creation that fails with file-not-found makes the launcher return
\* 127, any other creation failure 126; no guard is constructed, no handle
\* exists or is closed, and nothing is waited for, terminated or asked for
\* its exit code.
C3_CreationFailure ==
    CreateFailed =>
        /\ pc = "done"
        /\ ret = IF NotFound THEN EXIT_ENOENT ELSE EXIT_CANNOT_INVOKE
        /\ guards = <<>>
        /\ \A h \in DOMAIN handles : handles[h] = "null"
        /\ \A i \in DOMAIN calls : calls[i].op \in {"CreateProcessW", "GetLastError"}

C3_Witness ==
    CreateFailed /\ NotFound /\ pc = "done" /\ ret = EXIT_ENOENT

\* C4: no handle is ever closed twice, and once the launcher has returned
\* after a successful creation each of the two handles has been closed
\* exactly once, whatever path it took.
C4_HandlesClosedOnce ==
    /\ \A h \in DOMAIN handles : Count("CloseHandle", h) <= 1
    /\ (pc = "done" /\ Created) =>
           \A h \in DOMAIN handles : Count("CloseHandle", h) = 1 /\ handles[h] = "closed"

C4_Witness ==
    /\ pc = "done" /\ Created /\ TerminateFailed
    /\ \A h \in DOMAIN handles : Count("CloseHandle", h) = 1

\* C5: after a successful creation a failed wait, an unexpected wait result,
\* a failed terminate request, a failed probe and an unavailable exit code
\* each make the launcher return 125, and a launcher failure that returns
\* 125, 126 or 127 has written a diagnostic.
C5_FailureMapping ==
    pc = "done" =>
        /\ (Created /\ (WaitFailed \/ UnexpectedWaitResult \/ TerminateFailed
                          \/ ProbeFailed \/ ExitCodeUnavailable))
               => ret = EXIT_CANCELED
        /\ (ret \in {EXIT_CANCELED, EXIT_CANNOT_INVOKE, EXIT_ENOENT} /\ ~ExitCodeRetrieved)
               => wcerr # <<>>

C7_InvalidInvocation ==
    (pc = "done" /\ (argc < 3 \/ ~IsNumberInRange(Argv(1))))
        => (ret = EXIT_CANCELED /\ calls = <<>>)

\* C8: for every budget given as a number in 0..4294967295, a launcher that
\* waits for a child that never exits on its own eventually returns.
C8_BoundedWait ==
    (pc = "waiting" /\ ~child_exits /\ IsNumberInRange(Argv(1))) ~> (pc = "done")

\* C9: with budget 0 and a child still running when the wait is issued, the
\* wait reports timeout, the child is terminated and the launcher returns
\* 124.
C9_ZeroTimeout ==
    (pc = "done" /\ time_out = D(0, 0) /\ WaitTimedOut /\ TerminateSucceeded)
        => ret = EXIT_TIMEDOUT

\* C10: splitting the command line built by ArgvQuote and the join with the
\* argv tokenizer gives back the arguments quoted so far, element for
\* element; after the loop, all of them.
C10_RoundTrip ==
    pc \in {"quote", "create"} =>
        CommandLineToArgv(command_line) = SubSeq(argv, 3, argi)

C10_Witness ==
    /\ pc = "create" /\ argc = 4
    /\ Argv(2) = <<BS, BS, DQ>>
    /\ Argv(3) = <<>>
    /\ CommandLineToArgv(command_line) = <<Argv(2), Argv(3)>>

(***************************************************************************)
(* ArgvQuote called directly: every argument over the characters it tells  *)
(* apart, either value of Force, appended to an empty or a non-empty       *)
(* command line.                                                           *)
(***************************************************************************)
QuoteAlphabet == {"a", SP, TAB, NL, VT, BS, DQ}

ArgvQuoteArguments == UNION { [1..k -> QuoteAlphabet] : k \in 0..MaxLen }

ArgvQuoteInit ==
    /\ argv \in { <<ProgramName, <<"1">>, a>> : a \in ArgvQuoteArguments }
    /\ Force \in BOOLEAN
    /\ command_line \in { <<>>, <<"x", SP>> }
    /\ pc = "ArgvQuote"
    /\ time_out = D(0, 0)
    /\ argi = 2
    /\ child = "none"
    /\ child_exits = FALSE
    /\ child_code = D(0, 0)
    /\ elapsed = D(0, 0)
    /\ handles = [h \in {"hProcess", "hThread"} |-> "null"]
    /\ guards = <<>>
    /\ ret = 0
    /\ wcerr = <<>>
    /\ calls = <<>>

CallArgvQuote ==
    /\ pc = "ArgvQuote"
    /\ command_line' = ArgvQuote(Argv(argi), command_line, Force)
    /\ pc' = "quoted"
    /\ UNCHANGED <<Force, argv, time_out, argi, child, child_exits, child_code, elapsed,
                   handles, guards, ret, wcerr, calls>>

ArgvQuoteNext == CallArgvQuote

ArgvQuoteSpec == ArgvQuoteInit /\ [][ArgvQuoteNext]_vars

\* what a step appended to the command line
Appended == SubSeq(command_line', Len(command_line) + 1, Len(command_line'))

\* the argument takes the unquoted path of ArgvQuote
Unquoted(Argument, force) ==
    /\ force = FALSE
    /\ Argument # <<>>
    /\ \A i \in 1..Len(Argument) : Argument[i] \notin {SP, TAB, NL, VT, DQ}

\* the number of backslashes s ends with
RECURSIVE TrailingBackslashes(_)
TrailingBackslashes(s) ==
    IF s # <<>> /\ s[Len(s)] = BS
    THEN 1 + TrailingBackslashes(SubSeq(s, 1, Len(s) - 1))
    ELSE 0

\* s as its maximal runs of backslashes, each with the character that follows
\* it: <<n, c>>, and <<n, "END">> for the run that ends s
RECURSIVE Runs(_, _, _, _)
Runs(s, i, n, acc) ==
    IF i > Len(s) THEN Append(acc, <<n, "END">>)
    ELSE IF s[i] = BS THEN Runs(s, i + 1, n + 1, acc)
    ELSE Runs(s, i + 1, 0, Append(acc, <<n, s[i]>>))

\* the emitted form without the quotes that surround it
Inner(out, Argument, force) ==
    IF Unquoted(Argument, force) THEN out ELSE SubSeq(out, 2, Len(out) - 1)

\* the arguments of the command line joined as the spec states: one space
\* between consecutive arguments, none after the last
RECURSIVE JoinedFrom(_)
JoinedFrom(k) ==
    IF k >= argc THEN <<>>
    ELSE ArgvQuote(Argv(k), <<>>, FALSE)
           \o (IF k + 1 < argc THEN <<SP>> \o JoinedFrom(k + 1) ELSE <<>>)

(***************************************************************************)
(* The claims, continued.                                                  *)
(***************************************************************************)

\* C11: the command line handed to process creation is the quoted
\* arguments in input order with exactly one space between consecutive
\* arguments and no separator after the last.
C11_Join ==
    pc = "create" => command_line = JoinedFrom(2)

\* C12: ArgvQuote appends the argument unchanged if and only if Force is
\* false, the argument is not empty and it holds none of space, tab,
\* newline, vertical tab and double quote; in every other case what it
\* appends begins and ends with a double quote.
C12_QuotingDecision ==
    [][(pc = "ArgvQuote" /\ pc' = "quoted") =>
          /\ command_line' = command_line \o Appended
          /\ (Appended = Argv(argi)) <=> Unquoted(Argv(argi), Force)
          /\ ~Unquoted(Argv(argi), Force) =>
                 /\ Len(Appended) >= 2
                 /\ Appended[1] = DQ
                 /\ Appended[Len(Appended)] = DQ]_vars

C12_Witness ==
    /\ pc = "quoted" /\ Force /\ Argv(argi) = <<"a">>
    /\ command_line = <<"x", SP, DQ, "a", DQ>>

\* C13: for an argument that takes the quoted path and ends in exactly n
\* backslashes, what is appended ends with exactly 2n backslashes and then
\* the closing double quote.
C13_TrailingBackslashes ==
    [][(pc = "ArgvQuote" /\ pc' = "quoted" /\ ~Unquoted(Argv(argi), Force)) =>
          /\ Appended # <<>>
          /\ Appended[Len(Appended)] = DQ
          /\ TrailingBackslashes(SubSeq(Appended, 1, Len(Appended) - 1))
                 = 2 * TrailingBackslashes(Argv(argi))]_vars

C13_Witness ==
    /\ pc = "quoted" /\ Argv(argi) = <<SP, BS, BS>>
    /\ command_line = <<DQ, SP, BS, BS, BS, BS, DQ>>

\* C14: run by run, a double quote of the argument that follows a maximal
\* run of n backslashes is emitted as 2n + 1 backslashes and the quote, and
\* a run of n backslashes that another character follows is emitted as n
\* backslashes and that character.
C14_BackslashRuns ==
    [][(pc = "ArgvQuote" /\ pc' = "quoted") =>
          LET in == Runs(Argv(argi), 1, 0, <<>>)
              out == Runs(Inner(Appended, Argv(argi), Force), 1, 0, <<>>)
          IN  /\ Len(out) = Len(in)
              /\ \A i \in 1..(Len(in) - 1) :
                    out[i] = IF in[i][2] = DQ THEN <<2 * in[i][1] + 1, DQ>> ELSE in[i]]_vars

C14_Witness ==
    /\ pc = "quoted" /\ Argv(argi) = <<BS, BS, DQ>>
    /\ command_line = <<DQ, BS, BS, BS, BS, BS, DQ, DQ>>

\* the launcher has chosen its exit status
StatusChosen == pc \in {"unwind", "done"}

\* C15: after a successful terminate request the launcher returns 125
\* exactly when the zero-duration wait on the thread handle reports an
\* error, and 124 for every other outcome of the probe.
C15_ProbeOutcome ==
    (pc = "done" /\ TerminateSucceeded) =>
        /\ ret = EXIT_CANCELED <=> ProbeFailed
        /\ ret = EXIT_TIMEDOUT <=> ~ProbeFailed

\* C16: whenever the launcher returns 124 the child has terminated by the
\* time the launcher returns.
C16_ChildTerminated ==
    (StatusChosen /\ ret = EXIT_TIMEDOUT) => child \in {"terminated", "exited"}

\* C16, amended: whenever the launcher returns 124, either the terminate
\* request succeeded, and the child has terminated or is being terminated,
\* or the child ended on its own with exit code 124.
C16_TerminationRequested ==
    (StatusChosen /\ ret = EXIT_TIMEDOUT) =>
        \/ TerminateSucceeded /\ child \in {"terminating", "terminated"}
        \/ child = "exited" /\ child_code = D(0, EXIT_TIMEDOUT)

C16_Witness ==
    pc = "done" /\ ret = EXIT_TIMEDOUT /\ TerminateSucceeded /\ child = "terminating"

\* C17: the launcher creates at most one process, waits at most once on the
\* process handle, with the parsed budget, and requests at most one
\* termination, with exit code 0, and that only after the wait reported
\* timeout.
C17_SingleAttempt ==
    /\ Count("CreateProcessW", "none") <= 1
    /\ Count("WaitForSingleObject", "hProcess") <= 1
    /\ Count("TerminateProcess", "hProcess") <= 1
    /\ \A i \in DOMAIN calls :
          calls[i].op = "TerminateProcess" =>
              /\ \E j \in 1..(i - 1) :
                    calls[j] = Call("WaitForSingleObject", "hProcess", WAIT_TIMEOUT)
              /\ ~WaitFailed /\ ~WaitSignaled /\ ~UnexpectedWaitResult
    /\ WaitTimedOut =>
          /\ time_out = stoul(Argv(1)).value
          /\ Expired(time_out, elapsed)
    /\ child = "terminated" => child_code = D(0, 0)

C17_Witness ==
    /\ pc = "done" /\ TerminateSucceeded /\ child = "terminated"
    /\ Count("CreateProcessW", "none") = 1
    /\ Count("WaitForSingleObject", "hProcess") = 1
    /\ Count("TerminateProcess", "hProcess") = 1

\* C18: nothing is done with a handle after it was closed: the closes are
\* the last calls, made after the exit status was chosen; and the launcher
\* returns once: a status once chosen is kept.
C18_NoUseAfterRelease ==
    /\ [](/\ \A i, j \in DOMAIN calls :
                (i < j /\ calls[i].op = "CloseHandle") =>
                    (calls[j].op = "CloseHandle" /\ calls[j].h # calls[i].h)
          /\ (\E i \in DOMAIN calls : calls[i].op = "CloseHandle") => StatusChosen
          /\ \A h \in DOMAIN handles :
                handles[h] = "closed" <=> Count("CloseHandle", h) >= 1)
    /\ [][(StatusChosen => (StatusChosen' /\ ret' = ret))
          /\ (pc = "done" => pc' = "done")]_vars

C18_Witness ==
    /\ pc = "done" /\ ExitCodeRetrieved
    /\ calls[Len(calls)] = Call("CloseHandle", "hProcess", BOOL(TRUE))
    /\ calls[Len(calls) - 1] = Call("CloseHandle", "hThread", BOOL(TRUE))

\* C19: once the wait has reported timeout the launcher returns 124 or 125
\* and never reads the child's exit code; when the child exits on its own
\* between the timeout and the terminate request, the request fails and the
\* launcher returns 125.
C19_ExpiryRace ==
    (StatusChosen /\ WaitTimedOut) =>
        /\ ret \in {EXIT_TIMEDOUT, EXIT_CANCELED}
        /\ Count("GetExitCodeProcess", "hProcess") = 0
        /\ child = "exited" => (TerminateFailed /\ ret = EXIT_CANCELED)

C19_Witness ==
    /\ pc = "done" /\ WaitTimedOut /\ TerminateFailed
    /\ child = "exited" /\ child_code = D(0, 42)
    /\ ret = EXIT_CANCELED

====
